---------------------------- MODULE Spec2Model ----------------------------
(***************************************************************************)
(* A model of main.cpp: the container walkthroughs Arrays(), Trees(),      *)
(* HashTables() and NotArrays().  The fixed arrays, the vector, the        *)
(* ordered map and sets, the hash tables and the priority queues of the    *)
(* routines are variables; a container operation is an operator giving     *)
(* the container after it and what it returned, and the actions apply      *)
(* these operators to arguments drawn from small sets.  The statement      *)
(* sequences of the routines are kept as scripts: a position variable      *)
(* tells whether the operations applied so far are exactly the routine's   *)
(* statements.  The library containers follow the C++ standard's           *)
(* semantics; what it leaves to the implementation (the hash of a string,  *)
(* the bucket growth, the shape of the tree) is one choice among those     *)
(* allowed.                                                                *)
(***************************************************************************)
EXTENDS Integers, Sequences, FiniteSets

VARIABLES
    fn,             \* the routine main() is in
    my_nums,        \* int my_nums[10]                          (Arrays)
    ints,           \* std::array<int, 10> ints                 (NotArrays)
    arrLast,        \* the last operation on a fixed array
    nums_vector,    \* std::vector<int> nums_vector             (Arrays)
    vecLast,        \* the last operation on nums_vector
    vecPos,         \* position in VectorScript, -1 once off it
    ages,           \* std::map<std::string, int> ages          (Trees)
    agesLast,       \* the last operation on ages
    agesPos,        \* position in AgesScript, -1 once off it
    agesAdded,      \* the keys given to insert or assigned through ages[k] = v
    agesIndexed,    \* the keys read through ages[k]
    people3,        \* absl::btree_set<Person> people3          (Trees)
    people3Last,    \* the last operation on people3
    names,          \* std::set<std::string> names              (HashTables)
    namesLast,      \* the last operation on names
    namesPos,       \* position in NamesScript, -1 once off it
    namesGiven,     \* the keys given to names.insert
    unordered_names,\* std::unordered_set<std::string>          (HashTables)
    hash_ages,      \* std::unordered_map<std::string, int> ages (HashTables)
    people_set,     \* std::unordered_set<Person, hash_fn, eq_fn>
    hashLast,       \* the last operation on a hash table
    hashGiven,      \* the <<table, key>> pairs given to an insert
    people,         \* std::priority_queue<Person> people      (Trees)
    peopleLast,     \* the last operation on people
    peoplePos,      \* position in PeopleScript, -1 once off it
    yielded,        \* what the top() calls of PeopleScript returned
    people2,        \* the priority queue ordered by person_comp
    people2Last     \* the last operation on people2

arrVars == <<my_nums, ints, arrLast>>
vecVars == <<nums_vector, vecLast, vecPos>>
mapVars == <<ages, agesLast, agesPos, agesAdded, agesIndexed>>
p3Vars == <<people3, people3Last>>
setVars == <<names, namesLast, namesPos, namesGiven>>
hashVars == <<unordered_names, hash_ages, people_set, hashLast, hashGiven>>
pqVars == <<people, peopleLast, peoplePos, yielded>>
pq2Vars == <<people2, people2Last>>
vars == <<fn, arrVars, vecVars, mapVars, p3Vars, setVars, hashVars, pqVars, pq2Vars>>

\* What the operations on one family of containers leave alone.
notArr == <<vecVars, mapVars, p3Vars, setVars, hashVars, pqVars, pq2Vars>>
notVec == <<arrVars, mapVars, p3Vars, setVars, hashVars, pqVars, pq2Vars>>
notMap == <<arrVars, vecVars, p3Vars, setVars, hashVars, pqVars, pq2Vars>>
notP3 == <<arrVars, vecVars, mapVars, setVars, hashVars, pqVars, pq2Vars>>
notSet == <<arrVars, vecVars, mapVars, p3Vars, hashVars, pqVars, pq2Vars>>
notHash == <<arrVars, vecVars, mapVars, p3Vars, setVars, pqVars, pq2Vars>>
notPq == <<arrVars, vecVars, mapVars, p3Vars, setVars, hashVars, pq2Vars>>
notPq2 == <<arrVars, vecVars, mapVars, p3Vars, setVars, hashVars, pqVars>>

(***************************************************************************)
(* The names of the routines: strings are sequences of character codes.    *)
(***************************************************************************)
Bill == <<66, 105, 108, 108>>
Brian == <<66, 114, 105, 97, 110>>
Jen == <<74, 101, 110>>
Steve == <<83, 116, 101, 118, 101>>
Sam == <<83, 97, 109>>

\* The position a script is at after operation op: one further when op is
\* the script's next statement, -1 (off the script) otherwise.
Advance(script, pos, op) ==
    IF pos >= 0 /\ pos < Len(script) /\ script[pos + 1] = op
    THEN pos + 1
    ELSE -1

(***************************************************************************)
(* Fixed-capacity arrays: my_nums and ints.                                *)
(***************************************************************************)
ArraySize == 10
\* Most cells of one array the model initialises.
MaxInit == 2

SeqValues == {5, 777}
\* What a read of an indeterminate int may produce.
IndetValues == {0, 5, 777}

\* A cell that was never written holds an indeterminate value.
UninitCell == [init |-> FALSE, v |-> 0]
ValueCell(x) == [init |-> TRUE, v |-> x]

\* int a[10]; and std::array<int, 10> a;  -- no initializer.
FixedArray == [i \in 0..(ArraySize - 1) |-> UninitCell]

\* A write that runs one cell past the index.
ArrAssignOverrun(a, i, x) ==
    [j \in DOMAIN a |-> IF j = i \/ j = i + 1 THEN ValueCell(x) ELSE a[j]]
\* a[i] = x
ArrAssign(a, i, x) == [a EXCEPT ![i] = ValueCell(x)]

\* The values a read of a[i] may produce.
ArrRead(a, i) == IF a[i].init THEN {a[i].v} ELSE IndetValues

InitCount(a) == Cardinality({i \in DOMAIN a : a[i].init})

NoArrOp == [op |-> "none", arr |-> "none", i |-> 0, x |-> 0, pre |-> FixedArray]

MyNumsAssign(i, x) ==
    /\ fn = "Arrays"
    /\ my_nums[i].init \/ InitCount(my_nums) < MaxInit
    /\ my_nums' = ArrAssign(my_nums, i, x)
    /\ arrLast' = [op |-> "assign", arr |-> "my_nums", i |-> i, x |-> x,
                   pre |-> my_nums]
    /\ UNCHANGED <<fn, ints, notArr>>

MyNumsRead(i) ==
    /\ fn = "Arrays"
    /\ \E r \in ArrRead(my_nums, i) :
         arrLast' = [op |-> "read", arr |-> "my_nums", i |-> i, x |-> r,
                     pre |-> my_nums]
    /\ UNCHANGED <<fn, my_nums, ints, notArr>>

IntsAssign(i, x) ==
    /\ fn = "NotArrays"
    /\ ints[i].init \/ InitCount(ints) < MaxInit
    /\ ints' = ArrAssign(ints, i, x)
    /\ arrLast' = [op |-> "assign", arr |-> "ints", i |-> i, x |-> x,
                   pre |-> ints]
    /\ UNCHANGED <<fn, my_nums, notArr>>

IntsRead(i) ==
    /\ fn = "NotArrays"
    /\ \E r \in ArrRead(ints, i) :
         arrLast' = [op |-> "read", arr |-> "ints", i |-> i, x |-> r,
                     pre |-> ints]
    /\ UNCHANGED <<fn, my_nums, ints, notArr>>

(***************************************************************************)
(* The growable sequence nums_vector: a buffer of capacity cells, the      *)
(* first size of which are the elements.                                   *)
(***************************************************************************)
\* Most elements nums_vector grows beyond, and shrinks below, its first size.
MaxPush == 2
MaxPop == 1

\* std::vector<int> v(n): n value-initialised (zero) elements.
VectorOfSize(n) == [buf |-> [i \in 0..(n - 1) |-> ValueCell(0)], size |-> n]

Capacity(v) == Cardinality(DOMAIN v.buf)

\* The elements of v, as a sequence.
Elems(v) == [k \in 1..v.size |-> v.buf[k - 1].v]

\* v[i] = x
VecAssign(v, i, x) == [v EXCEPT !.buf[i] = ValueCell(x)]

\* A reallocation that copies one element too few.
ReallocateShort(v, n) ==
    [v EXCEPT !.buf = [i \in 0..(n - 1) |->
                         IF i < v.size - 1 THEN v.buf[i] ELSE UninitCell]]
\* Reallocation to capacity n: the elements are copied to the new buffer.
Reallocate(v, n) ==
    [v EXCEPT !.buf = [i \in 0..(n - 1) |->
                         IF i < v.size THEN v.buf[i] ELSE UninitCell]]

\* v.push_back(x): grows the buffer when it is full, then constructs x at
\* the end.
PushBack(v, x) ==
    LET w == IF v.size = Capacity(v)
             THEN Reallocate(v, v.size + (IF v.size > 0 THEN v.size ELSE 1))
             ELSE v
    IN  [buf |-> [w.buf EXCEPT ![v.size] = ValueCell(x)], size |-> v.size + 1]

\* v.pop_back(): the last element is destroyed; the buffer stays.
PopBack(v) == [v EXCEPT !.size = v.size - 1]

VecOp(name, i, x) == [op |-> name, i |-> i, x |-> x]

\* Arrays(), lines 56-58.
VectorScript ==
    << VecOp("assign", 0, 5), VecOp("push_back", 0, 777), VecOp("pop_back", 0, 0) >>

VecRecord(o) ==
    [op |-> o.op, i |-> o.i, x |-> o.x, pre |-> nums_vector,
     prevOp |-> vecLast.op, prevPre |-> vecLast.pre]

NumsVectorAssign(i, x) ==
    /\ fn = "Arrays"
    /\ i < nums_vector.size
    /\ nums_vector' = VecAssign(nums_vector, i, x)
    /\ vecLast' = VecRecord(VecOp("assign", i, x))
    /\ vecPos' = Advance(VectorScript, vecPos, VecOp("assign", i, x))
    /\ UNCHANGED <<fn, notVec>>

NumsVectorPushBack(x) ==
    /\ fn = "Arrays"
    /\ nums_vector.size < ArraySize + MaxPush
    /\ nums_vector' = PushBack(nums_vector, x)
    /\ vecLast' = VecRecord(VecOp("push_back", 0, x))
    /\ vecPos' = Advance(VectorScript, vecPos, VecOp("push_back", 0, x))
    /\ UNCHANGED <<fn, notVec>>

NumsVectorPopBack ==
    /\ fn = "Arrays"
    /\ nums_vector.size > 0
    /\ nums_vector.size > ArraySize - MaxPop
    /\ nums_vector' = PopBack(nums_vector)
    /\ vecLast' = VecRecord(VecOp("pop_back", 0, 0))
    /\ vecPos' = Advance(VectorScript, vecPos, VecOp("pop_back", 0, 0))
    /\ UNCHANGED <<fn, notVec>>

(***************************************************************************)
(* std::string's comparison, and Person.                                   *)
(***************************************************************************)
Min(a, b) == IF a < b THEN a ELSE b

\* std::string's operator<: lexicographic on the characters, a proper prefix
\* being smaller.
StrLess(a, b) ==
    \E k \in 1..(Min(Len(a), Len(b)) + 1) :
        /\ \A j \in 1..(k - 1) : a[j] = b[j]
        /\ \/ k <= Len(a) /\ k <= Len(b) /\ a[k] < b[k]
           \/ k = Len(a) + 1 /\ k <= Len(b)

\* struct Person { std::string name; int age; }
Person(n, a) == [name |-> n, age |-> a]

\* Person::operator<
PersonLess(lhs, rhs) == lhs.age < rhs.age

(***************************************************************************)
(* Ordered containers (std::set, std::map, absl::btree_set): a binary      *)
(* search tree, <<>> or <<left, element, right>>, that the comparison of   *)
(* the container's kind keeps ordered.  A map's elements are pairs         *)
(* [first, second] compared by first.                                      *)
(***************************************************************************)
Leaf == <<>>
Node(l, e, r) == <<l, e, r>>
Pair(k, v) == [first |-> k, second |-> v]

\* The container's comparison of two elements.
TreeLess(kind, a, b) ==
    CASE kind = "string" -> StrLess(a, b)
      [] kind = "pair" -> StrLess(a.first, b.first)
      [] kind = "person" -> PersonLess(a, b)

RECURSIVE PreOrder(_)
\* A traversal that visits the element before its left subtree.
PreOrder(t) ==
    IF t = Leaf THEN <<>> ELSE <<t[2]>> \o PreOrder(t[1]) \o PreOrder(t[3])
RECURSIVE InOrder(_)
\* Iteration: the left subtree, the element, the right subtree.
InOrder(t) ==
    IF t = Leaf THEN <<>> ELSE InOrder(t[1]) \o <<t[2]>> \o InOrder(t[3])

TreeSize(t) == Len(InOrder(t))
Entries(t) == {InOrder(t)[i] : i \in 1..Len(InOrder(t))}

RECURSIVE TreeInsertAlways(_, _, _)
\* An insertion that does not look for an equivalent element.
TreeInsertAlways(kind, t, e) ==
    IF t = Leaf THEN Node(Leaf, e, Leaf)
    ELSE IF TreeLess(kind, e, t[2])
         THEN Node(TreeInsertAlways(kind, t[1], e), t[2], t[3])
         ELSE Node(t[1], t[2], TreeInsertAlways(kind, t[3], e))
RECURSIVE TreeInsert(_, _, _)
\* insert(e): descends by the comparison; an element equivalent to e
\* (neither is less than the other) keeps its place and e is dropped.
TreeInsert(kind, t, e) ==
    IF t = Leaf THEN Node(Leaf, e, Leaf)
    ELSE IF TreeLess(kind, e, t[2])
         THEN Node(TreeInsert(kind, t[1], e), t[2], t[3])
         ELSE IF TreeLess(kind, t[2], e)
              THEN Node(t[1], t[2], TreeInsert(kind, t[3], e))
              ELSE t

RECURSIVE TreeFind(_, _, _)
\* find(e): <<the stored element>> when one is equivalent to e, <<>> (end())
\* otherwise.
TreeFind(kind, t, e) ==
    IF t = Leaf THEN <<>>
    ELSE IF TreeLess(kind, e, t[2]) THEN TreeFind(kind, t[1], e)
         ELSE IF TreeLess(kind, t[2], e) THEN TreeFind(kind, t[3], e)
              ELSE <<t[2]>>

RECURSIVE TreeAssign(_, _, _)
\* Writes through the reference operator[] returned: the pair equivalent to
\* e takes e's value.
TreeAssign(kind, t, e) ==
    IF t = Leaf THEN Leaf
    ELSE IF TreeLess(kind, e, t[2])
         THEN Node(TreeAssign(kind, t[1], e), t[2], t[3])
         ELSE IF TreeLess(kind, t[2], e)
              THEN Node(t[1], t[2], TreeAssign(kind, t[3], e))
              ELSE Node(t[1], [t[2] EXCEPT !.second = e.second], t[3])

\* The result of a map operation: the map after it, whether the key was
\* found, and the value read.
MapResult(m, found, v) == [c |-> m, found |-> found, v |-> v]

MapFindViaIndex(m, k) ==
    LET hit == TreeFind("pair", m, Pair(k, 0))
        m2 == TreeInsert("pair", m, Pair(k, 0))
    IN  MapResult(m2, hit # <<>>, TreeFind("pair", m2, Pair(k, 0))[1].second)
\* m.find(k)
MapFind(m, k) ==
    LET hit == TreeFind("pair", m, Pair(k, 0))
    IN  IF hit = <<>> THEN MapResult(m, FALSE, 0)
        ELSE MapResult(m, TRUE, hit[1].second)

MapIndexNoInsert(m, k) ==
    LET hit == TreeFind("pair", m, Pair(k, 0))
    IN  IF hit = <<>> THEN MapResult(m, FALSE, 0)
        ELSE MapResult(m, TRUE, hit[1].second)
\* m[k]: a reference to k's value, a value-initialised (0) entry being
\* inserted first when k is absent.
MapIndex(m, k) ==
    LET hit == TreeFind("pair", m, Pair(k, 0))
        m2 == IF hit = <<>> THEN TreeInsert("pair", m, Pair(k, 0)) ELSE m
    IN  MapResult(m2, hit # <<>>, TreeFind("pair", m2, Pair(k, 0))[1].second)

\* m[k] = v
MapIndexAssign(m, k, v) ==
    LET r == MapIndex(m, k)
    IN  MapResult(TreeAssign("pair", r.c, Pair(k, v)), r.found, v)

\* m.insert({k, v})
MapInsert(m, k, v) ==
    LET hit == TreeFind("pair", m, Pair(k, v))
    IN  MapResult(TreeInsert("pair", m, Pair(k, v)), hit # <<>>, v)

MapKeys == {Bill, Brian, Jen}
AgeValues == {38, 40}

MapOp(name, k, v) == [op |-> name, k |-> k, v |-> v]

\* Trees(), lines 89-98.
AgesScript ==
    << MapOp("index_assign", Bill, 38), MapOp("insert", Brian, 40),
       MapOp("index_read", Jen, 0), MapOp("find", Jen, 0) >>

\* One operation on ages: o is the call, r its result.
AgesStep(o, r) ==
    /\ ages' = r.c
    /\ agesLast' = [op |-> o.op, k |-> o.k, v |-> o.v, found |-> r.found,
                    r |-> r.v, pre |-> ages]
    /\ agesPos' = Advance(AgesScript, agesPos, o)
    /\ agesAdded' = IF o.op \in {"insert", "index_assign"}
                    THEN agesAdded \cup {o.k} ELSE agesAdded
    /\ agesIndexed' = IF o.op = "index_read"
                      THEN agesIndexed \cup {o.k} ELSE agesIndexed
    /\ UNCHANGED <<fn, notMap>>

AgesIndexAssign(k, v) ==
    /\ fn = "Trees"
    /\ AgesStep(MapOp("index_assign", k, v), MapIndexAssign(ages, k, v))

AgesInsert(k, v) ==
    /\ fn = "Trees"
    /\ AgesStep(MapOp("insert", k, v), MapInsert(ages, k, v))

\* int jens_age = ages[k];
AgesIndexRead(k) ==
    /\ fn = "Trees"
    /\ AgesStep(MapOp("index_read", k, 0), MapIndex(ages, k))

AgesFind(k) ==
    /\ fn = "Trees"
    /\ AgesStep(MapOp("find", k, 0), MapFind(ages, k))

(***************************************************************************)
(* The ordered sets people3 (of Person, by operator<) and names.           *)
(***************************************************************************)
Persons ==
    {Person(Bill, 37), Person(Bill, 38), Person(Jen, 37), Person(Jen, 38),
     Person(Brian, 39)}

People3Insert(p) ==
    /\ fn = "Trees"
    /\ people3' = TreeInsert("person", people3, p)
    /\ people3Last' = [op |-> "insert", e |-> p, pre |-> people3]
    /\ UNCHANGED <<fn, notP3>>

NameKeys == {Bill, Jen, Brian, Steve, Sam}

\* HashTables(), line 178: the initializer list is inserted front to back.
NamesScript == <<Bill, Jen, Brian, Steve>>

NamesInsert(k) ==
    /\ fn = "HashTables"
    /\ names' = TreeInsert("string", names, k)
    /\ namesLast' = [op |-> "insert", e |-> k, pre |-> names]
    /\ namesPos' = Advance(NamesScript, namesPos, k)
    /\ namesGiven' = namesGiven \cup {k}
    /\ UNCHANGED <<fn, notSet>>

(***************************************************************************)
(* Hash tables (std::unordered_set, std::unordered_map): nb buckets, each  *)
(* a chain of elements; an element lives in the bucket its hash selects.   *)
(***************************************************************************)
HashMod == 2 ^ 16

RECURSIVE StrHash(_)
\* std::hash<std::string>: a function of the characters alone.
StrHash(str) ==
    IF str = <<>> THEN 0
    ELSE (StrHash(SubSeq(str, 1, Len(str) - 1)) * 31 + str[Len(str)]) % HashMod

hash_fn_with_age(person) == (StrHash(person.name) + person.age) % HashMod
\* The lambda hash_fn of HashTables().
hash_fn(person) == StrHash(person.name)

\* The lambda eq_fn of HashTables().
eq_fn(lhs, rhs) == lhs.name = rhs.name

\* The hash and the equality of a table of the kind.
TableHash(kind, e) ==
    CASE kind = "string" -> StrHash(e)
      [] kind = "pair" -> StrHash(e.first)
      [] kind = "person" -> hash_fn(e)

TableEq(kind, a, b) ==
    CASE kind = "string" -> a = b
      [] kind = "pair" -> a.first = b.first
      [] kind = "person" -> eq_fn(a, b)

EmptyBuckets(n) == [i \in 0..(n - 1) |-> <<>>]

\* A table as constructed: one bucket.
EmptyTable == [nb |-> 1, bkt |-> EmptyBuckets(1)]

RECURSIVE ChainsFrom(_, _)
ChainsFrom(table, i) ==
    IF i >= table.nb THEN <<>> ELSE table.bkt[i] \o ChainsFrom(table, i + 1)

\* Iteration: bucket after bucket.
Iterate(table) == ChainsFrom(table, 0)

HashSize(table) == Len(Iterate(table))

BucketOf(kind, e, n) == TableHash(kind, e) % n

\* find(e): <<the stored element>> when one equals e, <<>> (end()) otherwise.
HashFind(kind, table, e) ==
    LET chain == table.bkt[BucketOf(kind, e, table.nb)]
        hits == {i \in 1..Len(chain) : TableEq(kind, chain[i], e)}
    IN  IF hits = {} THEN <<>>
        ELSE <<chain[CHOOSE i \in hits : \A j \in hits : i <= j]>>

RECURSIVE Place(_, _, _, _)
\* The elements of list put into the n buckets bkt, each at the front of
\* its chain.
Place(kind, list, bkt, n) ==
    IF list = <<>> THEN bkt
    ELSE Place(kind, Tail(list),
               [bkt EXCEPT ![BucketOf(kind, Head(list), n)] = <<Head(list)>> \o @],
               n)

\* A rehash that leaves every element in the bucket it had.
RehashKeepBuckets(kind, table, n) ==
    [nb |-> n,
     bkt |-> [i \in 0..(n - 1) |-> IF i < table.nb THEN table.bkt[i] ELSE <<>>]]
\* rehash to n buckets: every element moves to the bucket its hash selects
\* among the n.
Rehash(kind, table, n) ==
    [nb |-> n, bkt |-> Place(kind, Iterate(table), EmptyBuckets(n), n)]

\* The bucket count a full table grows to.
GrowBuckets(n) == 2 * n + 1

\* insert(e): nothing when an element equal to e is stored; otherwise the
\* table grows when it is full (maximum load factor 1) and e is linked
\* into its bucket.
HashInsert(kind, table, e) ==
    IF HashFind(kind, table, e) # <<>> THEN table
    ELSE LET grown == IF HashSize(table) + 1 > table.nb
                      THEN Rehash(kind, table, GrowBuckets(table.nb))
                      ELSE table
         IN  [grown EXCEPT !.bkt[BucketOf(kind, e, grown.nb)] = <<e>> \o @]

\* An insert into table tbl of an element with the key, and the value or age
\* v beside it; h is the hash computed for it.
HashOp(tbl, key, v, h, pre) ==
    [tbl |-> tbl, key |-> key, v |-> v, h |-> h, pre |-> pre]

HashNameKeys == {Bill, Jen, Brian, Steve}
HashAgeKeys == {Bill, Jen}

UnorderedNamesInsert(k) ==
    /\ fn = "HashTables"
    /\ unordered_names' = HashInsert("string", unordered_names, k)
    /\ hashLast' = HashOp("unordered_names", k, 0, TableHash("string", k),
                          unordered_names)
    /\ hashGiven' = hashGiven \cup {<<"unordered_names", k>>}
    /\ UNCHANGED <<fn, hash_ages, people_set, notHash>>

HashAgesInsert(k, v) ==
    /\ fn = "HashTables"
    /\ hash_ages' = HashInsert("pair", hash_ages, Pair(k, v))
    /\ hashLast' = HashOp("hash_ages", k, v, TableHash("pair", Pair(k, v)),
                          hash_ages)
    /\ hashGiven' = hashGiven \cup {<<"hash_ages", k>>}
    /\ UNCHANGED <<fn, unordered_names, people_set, notHash>>

PeopleSetInsert(p) ==
    /\ fn = "HashTables"
    /\ people_set' = HashInsert("person", people_set, p)
    /\ hashLast' = HashOp("people_set", p.name, p.age, TableHash("person", p),
                          people_set)
    /\ hashGiven' = hashGiven \cup {<<"people_set", p.name>>}
    /\ UNCHANGED <<fn, unordered_names, hash_ages, notHash>>

(***************************************************************************)
(* Priority queues: a binary heap in a vector, the element no other is     *)
(* greater than (by the queue's comparison) first.                         *)
(***************************************************************************)
\* Most elements a queue of the model holds.
MaxQueue == 3

person_comp_by_age(lhs, rhs) == lhs.age < rhs.age
\* The lambda person_comp of Trees().
person_comp(lhs, rhs) == StrLess(lhs.name, rhs.name)

\* std::less<Person>, the comparison of a queue declared without one.
DefaultLess(lhs, rhs) == PersonLess(lhs, rhs)

Comp(kind, a, b) ==
    CASE kind = "less" -> DefaultLess(a, b)
      [] kind = "person_comp" -> person_comp(a, b)

Swap(c, i, j) == [c EXCEPT ![i] = c[j], ![j] = c[i]]

RECURSIVE SiftUp(_, _, _)
SiftUp(kind, c, i) ==
    IF i > 1 /\ Comp(kind, c[i \div 2], c[i])
    THEN SiftUp(kind, Swap(c, i \div 2, i), i \div 2)
    ELSE c

RECURSIVE SiftDown(_, _, _)
SiftDown(kind, c, i) ==
    LET l == 2 * i
        r == 2 * i + 1
        m1 == IF l <= Len(c) /\ Comp(kind, c[i], c[l]) THEN l ELSE i
        m2 == IF r <= Len(c) /\ Comp(kind, c[m1], c[r]) THEN r ELSE m1
    IN  IF m2 = i THEN c ELSE SiftDown(kind, Swap(c, i, m2), m2)

\* push(x): push_back, then push_heap.
HeapPush(kind, c, x) == SiftUp(kind, Append(c, x), Len(c) + 1)

\* top(): the front of the vector.
HeapTop(c) == c[1]

\* pop(): pop_heap moves the front to the back and restores the heap, then
\* pop_back removes it.
HeapPop(kind, c) ==
    IF Len(c) = 1 THEN <<>>
    ELSE SiftDown(kind, [SubSeq(c, 1, Len(c) - 1) EXCEPT ![1] = c[Len(c)]], 1)

NoPerson == Person(<<>>, 0)
QueueOp(name, e) == [op |-> name, e |-> e]

\* Trees(), lines 113-122, then top() and pop() twice more.
PeopleScript ==
    << QueueOp("push", Person(Brian, 39)), QueueOp("push", Person(Bill, 37)),
       QueueOp("push", Person(Jen, 38)),
       QueueOp("top", NoPerson), QueueOp("pop", NoPerson),
       QueueOp("top", NoPerson), QueueOp("pop", NoPerson),
       QueueOp("top", NoPerson), QueueOp("pop", NoPerson) >>

\* One operation on people: o is the call, q the queue after it, r what the
\* call returned.
PeopleStep(o, q, r) ==
    /\ people' = q
    /\ peopleLast' = [op |-> o.op, e |-> o.e, r |-> r, pre |-> people]
    /\ peoplePos' = Advance(PeopleScript, peoplePos, o)
    /\ yielded' = IF peoplePos' < 0 THEN <<>>
                  ELSE IF o.op = "top" THEN Append(yielded, r) ELSE yielded
    /\ UNCHANGED <<fn, notPq>>

PeoplePush(p) ==
    /\ fn = "Trees"
    /\ Len(people) < MaxQueue
    /\ PeopleStep(QueueOp("push", p), HeapPush("less", people, p), NoPerson)

\* Person p = people.top();
PeopleTop ==
    /\ fn = "Trees"
    /\ people # <<>>
    /\ PeopleStep(QueueOp("top", NoPerson), people, HeapTop(people))

PeoplePop ==
    /\ fn = "Trees"
    /\ people # <<>>
    /\ PeopleStep(QueueOp("pop", NoPerson), HeapPop("less", people), NoPerson)

People2Step(o, q, r) ==
    /\ people2' = q
    /\ people2Last' = [op |-> o.op, e |-> o.e, r |-> r, pre |-> people2]
    /\ UNCHANGED <<fn, notPq2>>

People2Push(p) ==
    /\ fn = "Trees"
    /\ Len(people2) < MaxQueue
    /\ People2Step(QueueOp("push", p), HeapPush("person_comp", people2, p),
                   NoPerson)

People2Top ==
    /\ fn = "Trees"
    /\ people2 # <<>>
    /\ People2Step(QueueOp("top", NoPerson), people2, HeapTop(people2))

People2Pop ==
    /\ fn = "Trees"
    /\ people2 # <<>>
    /\ People2Step(QueueOp("pop", NoPerson), HeapPop("person_comp", people2),
                   NoPerson)

(***************************************************************************)
(* main(): Arrays(); Trees(); HashTables(); NotArrays().  A routine's      *)
(* containers end with it.                                                 *)
(***************************************************************************)
NoVecOp ==
    [op |-> "none", i |-> 0, x |-> 0, pre |-> VectorOfSize(ArraySize),
     prevOp |-> "none", prevPre |-> VectorOfSize(ArraySize)]
NoMapOp == [op |-> "none", k |-> <<>>, v |-> 0, found |-> FALSE, r |-> 0, pre |-> Leaf]
NoSetOp == [op |-> "none", e |-> <<>>, pre |-> Leaf]
NoP3Op == [op |-> "none", e |-> NoPerson, pre |-> Leaf]
NoHashOp == HashOp("none", <<>>, 0, 0, EmptyTable)
NoQueueOp == [op |-> "none", e |-> NoPerson, r |-> NoPerson, pre |-> <<>>]

ArraysLocals ==
    /\ my_nums = FixedArray
    /\ arrLast = NoArrOp
    /\ nums_vector = VectorOfSize(ArraySize)
    /\ vecLast = NoVecOp
    /\ vecPos = 0

TreesLocals ==
    /\ ages = Leaf
    /\ agesLast = NoMapOp
    /\ agesPos = 0
    /\ agesAdded = {}
    /\ agesIndexed = {}
    /\ people3 = Leaf
    /\ people3Last = NoP3Op
    /\ people = <<>>
    /\ peopleLast = NoQueueOp
    /\ peoplePos = 0
    /\ yielded = <<>>
    /\ people2 = <<>>
    /\ people2Last = NoQueueOp

HashTablesLocals ==
    /\ names = Leaf
    /\ namesLast = NoSetOp
    /\ namesPos = 0
    /\ namesGiven = {}
    /\ unordered_names = EmptyTable
    /\ hash_ages = EmptyTable
    /\ people_set = EmptyTable
    /\ hashLast = NoHashOp
    /\ hashGiven = {}

Init ==
    /\ fn = "Arrays"
    /\ ArraysLocals
    /\ TreesLocals
    /\ HashTablesLocals
    /\ ints = FixedArray

ArraysReturn ==
    /\ fn = "Arrays"
    /\ fn' = "Trees"
    /\ my_nums' = FixedArray
    /\ arrLast' = NoArrOp
    /\ nums_vector' = VectorOfSize(ArraySize)
    /\ vecLast' = NoVecOp
    /\ vecPos' = 0
    /\ UNCHANGED <<ints, mapVars, p3Vars, setVars, hashVars, pqVars, pq2Vars>>

TreesReturn ==
    /\ fn = "Trees"
    /\ fn' = "HashTables"
    /\ ages' = Leaf
    /\ agesLast' = NoMapOp
    /\ agesPos' = 0
    /\ agesAdded' = {}
    /\ agesIndexed' = {}
    /\ people3' = Leaf
    /\ people3Last' = NoP3Op
    /\ people' = <<>>
    /\ peopleLast' = NoQueueOp
    /\ peoplePos' = 0
    /\ yielded' = <<>>
    /\ people2' = <<>>
    /\ people2Last' = NoQueueOp
    /\ UNCHANGED <<arrVars, vecVars, setVars, hashVars>>

HashTablesReturn ==
    /\ fn = "HashTables"
    /\ fn' = "NotArrays"
    /\ names' = Leaf
    /\ namesLast' = NoSetOp
    /\ namesPos' = 0
    /\ namesGiven' = {}
    /\ unordered_names' = EmptyTable
    /\ hash_ages' = EmptyTable
    /\ people_set' = EmptyTable
    /\ hashLast' = NoHashOp
    /\ hashGiven' = {}
    /\ UNCHANGED <<arrVars, vecVars, mapVars, p3Vars, pqVars, pq2Vars>>

(***************************************************************************)
(* Specifications: main() with the operations of one family of containers. *)
(***************************************************************************)
NextArrays ==
    \/ \E i \in 0..(ArraySize - 1), x \in SeqValues : MyNumsAssign(i, x)
    \/ \E i \in 0..(ArraySize - 1) : MyNumsRead(i)
    \/ ArraysReturn
    \/ TreesReturn
    \/ HashTablesReturn
    \/ \E i \in 0..(ArraySize - 1), x \in SeqValues : IntsAssign(i, x)
    \/ \E i \in 0..(ArraySize - 1) : IntsRead(i)

NextVector ==
    \/ \E x \in SeqValues : NumsVectorAssign(0, x)
    \/ \E x \in SeqValues : NumsVectorPushBack(x)
    \/ NumsVectorPopBack

NextMap ==
    \/ ArraysReturn
    \/ \E k \in MapKeys, v \in AgeValues : AgesIndexAssign(k, v)
    \/ \E k \in MapKeys, v \in AgeValues : AgesInsert(k, v)
    \/ \E k \in MapKeys : AgesIndexRead(k)
    \/ \E k \in MapKeys : AgesFind(k)

NextNames ==
    \/ ArraysReturn
    \/ TreesReturn
    \/ \E k \in NameKeys : NamesInsert(k)

NextHash ==
    \/ ArraysReturn
    \/ TreesReturn
    \/ \E k \in HashNameKeys : UnorderedNamesInsert(k)
    \/ \E k \in HashAgeKeys, v \in AgeValues : HashAgesInsert(k, v)

NextUnique ==
    \/ ArraysReturn
    \/ \E k \in {Bill, Brian}, v \in AgeValues : AgesInsert(k, v)
    \/ \E p \in Persons : People3Insert(p)
    \/ TreesReturn
    \/ \E p \in Persons : PeopleSetInsert(p)

NextPeople ==
    \/ ArraysReturn
    \/ \E p \in Persons : PeoplePush(p)
    \/ PeopleTop
    \/ PeoplePop

NextPeople2 ==
    \/ ArraysReturn
    \/ \E p \in Persons : People2Push(p)
    \/ People2Top
    \/ People2Pop

SpecArrays == Init /\ [][NextArrays]_vars
SpecVector == Init /\ [][NextVector]_vars
SpecMap == Init /\ [][NextMap]_vars
SpecNames == Init /\ [][NextNames]_vars
SpecHash == Init /\ [][NextHash]_vars
SpecUnique == Init /\ [][NextUnique]_vars
SpecPeople == Init /\ [][NextPeople]_vars
SpecPeople2 == Init /\ [][NextPeople2]_vars

(***************************************************************************)
(* Claims.                                                                 *)
(***************************************************************************)
LastArray == IF arrLast.arr = "my_nums" THEN my_nums ELSE ints

AssignedFiveAtZero == arrLast.op = "assign" /\ arrLast.i = 0 /\ arrLast.x = 5

\* C7 as stated: after assigning 5 to index 0 of my_nums or ints, a read of
\* index 0 returns 5, and indices 1 to 9 are untouched and hold the default
\* value 0.
C7_RestHoldsDefault ==
    AssignedFiveAtZero =>
        /\ ArrRead(LastArray, 0) = {5}
        /\ \A j \in 1..(ArraySize - 1) :
             /\ LastArray[j] = arrLast.pre[j]
             /\ ArrRead(LastArray, j) = {0}

\* C7 (amended): after assigning 5 to index 0 of my_nums or ints, a read of
\* index 0 returns 5, and indices 1 to 9 are untouched: each holds what it
\* held before, and one that was never assigned is still uninitialised, so
\* that a read of it may produce any value and not a default.
C7_RestUntouched ==
    AssignedFiveAtZero =>
        /\ ArrRead(LastArray, 0) = {5}
        /\ \A j \in 1..(ArraySize - 1) :
             /\ LastArray[j] = arrLast.pre[j]
             /\ ~arrLast.pre[j].init => ArrRead(LastArray, j) = IndetValues

\* C7's case: ints[0] = 5 is the only assignment ints has seen.
C7_Witness ==
    /\ AssignedFiveAtZero
    /\ arrLast.arr = "ints"
    /\ ints[0] = ValueCell(5)
    /\ \A j \in 1..(ArraySize - 1) : ~ints[j].init

Keys(m) == {e.first : e \in Entries(m)}
Stored(table) == {Iterate(table)[i] : i \in 1..Len(Iterate(table))}
Count(c, p) == Cardinality({i \in 1..Len(c) : c[i] = p})

\* C1 as stated: after pushing Brian(39), Bill(37) and Jen(38) onto people,
\* top() is Bill, and top-then-pop repeated yields Bill, then Jen, then
\* Brian.
C1_YieldsSmallestAgeFirst ==
    /\ Len(yielded) >= 1 => yielded[1].name = Bill
    /\ Len(yielded) >= 2 => yielded[2].name = Jen
    /\ Len(yielded) >= 3 => yielded[3].name = Brian

\* C2 as stated: find(k) of a key that was never added reports not found and
\* leaves the map unchanged; in Trees() ages.find("Jen") reports not found
\* and the map still holds only Bill and Brian.
C2_FindJenNotFound ==
    /\ agesLast.op = "find" => ages = agesLast.pre
    /\ (agesLast.op = "find" /\ agesLast.k \notin agesAdded \cup agesIndexed) =>
         ~agesLast.found
    /\ agesPos = Len(AgesScript) =>
         /\ ~agesLast.found
         /\ Keys(ages) = {Bill, Brian}

\* C2 (amended): find(k) of a key that was never added - by insert, by
\* assignment or by the indexed read ages[k] - reports not found, and every
\* find leaves the map's size and contents unchanged; in Trees() the indexed
\* read ages["Jen"] has added Jen before the lookup, so ages.find("Jen")
\* reports found with value 0 and the map holds Bill, Brian and Jen.
C2_FindJenFoundAfterIndex ==
    /\ agesLast.op = "find" => ages = agesLast.pre
    /\ (agesLast.op = "find" /\ agesLast.k \notin agesAdded \cup agesIndexed) =>
         ~agesLast.found
    /\ \A k \in MapKeys :
         k \notin agesAdded \cup agesIndexed =>
             MapFind(ages, k) = MapResult(ages, FALSE, 0)
    /\ agesPos = Len(AgesScript) =>
         /\ agesLast.found
         /\ agesLast.r = 0
         /\ Keys(ages) = {Bill, Brian, Jen}
         /\ TreeSize(ages) = 3

\* C2's case: Trees() has run lines 89 to 98 and the lookup of Jen is done.
C2_Witness ==
    /\ agesPos = Len(AgesScript)
    /\ agesLast.op = "find"
    /\ agesLast.k = Jen
    /\ Jen \notin agesAdded

\* C3: ages[k] with k absent inserts (k, 0): the size grows by exactly one,
\* the value read is 0, every other entry is unchanged and find(k) then
\* succeeds with value 0, also later as long as k is not assigned; ages[k]
\* with k present changes neither the size nor any other entry.
C3_IndexInsertsDefault ==
    LET pre == agesLast.pre
        k == agesLast.k
        others(m) == {e \in Entries(m) : e.first # k}
    IN  /\ (agesLast.op = "index_read" /\ k \notin Keys(pre)) =>
             /\ TreeSize(ages) = TreeSize(pre) + 1
             /\ agesLast.r = 0
             /\ Entries(ages) = Entries(pre) \cup {Pair(k, 0)}
             /\ MapFind(ages, k) = MapResult(ages, TRUE, 0)
        /\ (agesLast.op = "index_read" /\ k \in Keys(pre)) =>
             /\ TreeSize(ages) = TreeSize(pre)
             /\ Entries(ages) = Entries(pre)
             /\ Pair(k, agesLast.r) \in Entries(pre)
        /\ agesLast.op = "index_assign" =>
             /\ TreeSize(ages) = TreeSize(pre) + (IF k \in Keys(pre) THEN 0 ELSE 1)
             /\ others(ages) = others(pre)
             /\ Pair(k, agesLast.v) \in Entries(ages)
        /\ (agesLast.op = "find" /\ k \in agesIndexed /\ k \notin agesAdded) =>
             /\ agesLast.found
             /\ agesLast.r = 0

\* C3's case: the indexed read of a key the map does not hold, beside
\* entries it does hold.
C3_Witness ==
    /\ agesLast.op = "index_read"
    /\ agesLast.k = Jen
    /\ Keys(agesLast.pre) = {Bill, Brian}
    /\ Keys(ages) = {Bill, Brian, Jen}

\* C4: after any insertions into names, in any order and with duplicates,
\* iteration yields strictly ascending keys, and exactly the keys inserted,
\* so the same sequence whatever the order was; after line 178 it is Bill,
\* Brian, Jen, Steve.
C4_NamesAscending ==
    LET it == InOrder(names)
    IN  /\ \A i, j \in 1..Len(it) : i < j => StrLess(it[i], it[j])
        /\ {it[i] : i \in 1..Len(it)} = namesGiven
        /\ namesPos = Len(NamesScript) => it = <<Bill, Brian, Jen, Steve>>

\* C4's case: the four names of line 178 are in, Jen before Brian.
C4_Witness ==
    /\ namesPos = Len(NamesScript)
    /\ namesLast.e = Steve
    /\ TreeSize(names) = 4

\* C5: after any insertions into unordered_names or the unordered map ages,
\* a lookup of every key that was inserted succeeds, whatever rehashing
\* happened and whatever order iteration has.
C5_InsertedKeysFound ==
    \A g \in hashGiven :
        /\ g[1] = "unordered_names" =>
             HashFind("string", unordered_names, g[2]) = <<g[2]>>
        /\ g[1] = "hash_ages" =>
             /\ HashFind("pair", hash_ages, Pair(g[2], 0)) # <<>>
             /\ HashFind("pair", hash_ages, Pair(g[2], 0))[1].first = g[2]

\* C5's case: both tables have been rehashed, unordered_names twice, and
\* iteration of unordered_names is not in insertion order.
C5_Witness ==
    /\ HashSize(unordered_names) = 4
    /\ unordered_names.nb > GrowBuckets(1)
    /\ hash_ages.nb > 1
    /\ Iterate(unordered_names) # <<Bill, Jen, Brian, Steve>>
    /\ hashLast.key = Steve

\* C6: for all persons a and b, eq_fn(a, b) implies hash_fn(a) = hash_fn(b),
\* also when the ages differ; so the hash computed for a person given to
\* people_set.insert is that of every stored person eq_fn finds equal.
C6_EqualImpliesSameHash ==
    /\ \A a, b \in Persons : eq_fn(a, b) => hash_fn(a) = hash_fn(b)
    /\ hashLast.tbl = "people_set" =>
         \A s \in Stored(people_set) :
             eq_fn(s, Person(hashLast.key, hashLast.v)) => hash_fn(s) = hashLast.h

\* C6's case: a person was given to people_set that holds one of the same
\* name and another age.
C6_Witness ==
    /\ hashLast.tbl = "people_set"
    /\ \E s \in Stored(people_set) :
         /\ eq_fn(s, Person(hashLast.key, hashLast.v))
         /\ s.age # hashLast.v
         /\ hash_fn(s) = hashLast.h

\* C8: ages, people3 and people_set never hold two equivalent keys, and an
\* insert of a key equivalent to a stored one leaves the container (size,
\* stored element, a map's value) unchanged; two persons of the same age are
\* one key of people3, two of the same name one key of people_set.
C8_UniqueKeys ==
    LET p3 == InOrder(people3)
        ag == InOrder(ages)
        ps == Iterate(people_set)
    IN  /\ \A i, j \in 1..Len(p3) : i # j => p3[i].age # p3[j].age
        /\ \A i, j \in 1..Len(ag) : i # j => ag[i].first # ag[j].first
        /\ \A i, j \in 1..Len(ps) : i # j => ps[i].name # ps[j].name
        /\ (people3Last.op = "insert"
              /\ \E s \in Entries(people3Last.pre) : s.age = people3Last.e.age) =>
             people3 = people3Last.pre
        /\ (agesLast.op = "insert" /\ agesLast.k \in Keys(agesLast.pre)) =>
             ages = agesLast.pre
        /\ (hashLast.tbl = "people_set"
              /\ \E s \in Stored(hashLast.pre) : s.name = hashLast.key) =>
             people_set = hashLast.pre

\* C8's case: a person was given to people_set that holds one of the same
\* name and another age, and the set is as it was.
C8_Witness ==
    /\ hashLast.tbl = "people_set"
    /\ HashSize(people_set) = 3
    /\ \E s \in Stored(hashLast.pre) :
         s.name = hashLast.key /\ s.age # hashLast.v

\* C9: while people2 is not empty, top() is an element no other exceeds by
\* name, whatever the ages; top() leaves the queue as it is and returns that
\* element; pop() removes exactly one copy of it, lowers the size by one and
\* keeps every other element.
C9_TopIsGreatestName ==
    LET pre == people2Last.pre
    IN  /\ people2 # <<>> =>
             \A i \in 1..Len(people2) :
                 ~StrLess(HeapTop(people2).name, people2[i].name)
        /\ people2Last.op = "top" =>
             /\ people2 = pre
             /\ people2Last.r = HeapTop(pre)
        /\ people2Last.op = "pop" =>
             /\ Len(people2) = Len(pre) - 1
             /\ \A p \in Persons :
                  Count(people2, p) =
                      Count(pre, p) - (IF p = HeapTop(pre) THEN 1 ELSE 0)
        /\ people2Last.op = "push" =>
             \A p \in Persons :
                 Count(people2, p) =
                     Count(pre, p) + (IF p = people2Last.e THEN 1 ELSE 0)

\* C9's case: a pop from a full queue whose top by name, Jen(37), is the
\* youngest in it.
C9_Witness ==
    /\ people2Last.op = "pop"
    /\ Len(people2Last.pre) = MaxQueue
    /\ HeapTop(people2Last.pre) = Person(Jen, 37)
    /\ Count(people2Last.pre, Person(Brian, 39)) = 1
    /\ Count(people2, Person(Brian, 39)) = 1

\* C10: nums_vector starts as 10 zeros; push_back(x) grows the size by one,
\* puts x at the end and leaves the earlier elements unchanged; a pop_back()
\* right after a push_back restores the size and contents from before the
\* push; after nums_vector[0] = 5, push_back(777), pop_back() the vector has
\* 10 elements, index 0 equal to 5 and indices 1 to 9 equal to 0.
C10_PushPopRestores ==
    /\ vecLast.op = "none" =>
         /\ nums_vector.size = ArraySize
         /\ \A k \in 1..ArraySize : Elems(nums_vector)[k] = 0
    /\ vecLast.op = "push_back" =>
         /\ nums_vector.size = vecLast.pre.size + 1
         /\ Elems(nums_vector)[nums_vector.size] = vecLast.x
         /\ \A k \in 1..vecLast.pre.size :
              Elems(nums_vector)[k] = Elems(vecLast.pre)[k]
    /\ (vecLast.op = "pop_back" /\ vecLast.prevOp = "push_back") =>
         Elems(nums_vector) = Elems(vecLast.prevPre)
    /\ vecPos = Len(VectorScript) =>
         /\ nums_vector.size = ArraySize
         /\ Elems(nums_vector)[1] = 5
         /\ \A k \in 2..ArraySize : Elems(nums_vector)[k] = 0

\* C10's case: Arrays() has run lines 56 to 58, the push having reallocated.
C10_Witness ==
    /\ vecPos = Len(VectorScript)
    /\ vecLast.op = "pop_back"
    /\ vecLast.prevOp = "push_back"
    /\ Capacity(nums_vector) > ArraySize

=============================================================================
